---- MODULE Spec2Model ----
(***************************************************************************)
(* The Textract pipeline of aws-serverless-textract-solution:               *)
(*   - textract-create-request-queue (the Job Submitter): consumes S3       *)
(*     object-created notifications from textAnalysisQueue, starts a        *)
(*     Textract analysis job, publishes a tracking record to                *)
(*     textAnalysisResultQueue and deletes the notification;                *)
(*   - textract-receive-result (the Result Collector): consumes tracking    *)
(*     records, queries the job, writes the page text to the JSON bucket    *)
(*     or forwards the record to textAnalysisResultQueueDLQ;                *)
(*   - the SQS event source mappings that deliver batches to both.          *)
(* Every awaited SDK call is one step that either succeeds or rejects.      *)
(***************************************************************************)
EXTENDS Integers, Sequences, FiniteSets, TLC

\* ------------------------------------------------------------------ bounds
MaxMsgs == 2
MaxJobs == 3
MaxTracking == 2
MaxPages == 2
MaxQuarantine == 2
MaxRows == 2
MaxCols == 3
NumWorkers == 2

\* ------------------------------------------------------- program constants
maxAttempts == 3
batchSize == 10

Undefined == "undefined"
PdfBucket == "pfdFilesBucket"

Msgs == 1..MaxMsgs
NoOutput == [runs |-> 0, objects |-> {}]

\* The bodies S3 puts on textAnalysisQueue: an object-created event wraps
\* records {s3: {bucket: {name}, object: {key}}}; an s3:TestEvent body has no
\* Records array. A record is named by what it carries.
Bodies ==
    << [isNull |-> FALSE, isArray |-> TRUE, Records |-> <<"ok">>],
       [isNull |-> FALSE, isArray |-> TRUE, Records |-> <<"nokey">>],
       [isNull |-> FALSE, isArray |-> TRUE, Records |-> <<"nobucket">>],
       [isNull |-> FALSE, isArray |-> TRUE, Records |-> <<"ok", "ok">>],
       [isNull |-> FALSE, isArray |-> FALSE, Records |-> <<>>] >>

\* A message body that is the JSON text null: JSON.parse gives null.
NullBody == [isNull |-> TRUE, isArray |-> FALSE, Records |-> <<>>]

\* The environment variables the stack gives the two functions.
ConfigKeys ==
    { "TEXTRACT_QUEUE_URL", "TEXTRACT_RESULT_QUEUE_URL",
      "S3_JSON_FILES_BUCKET_NAME", "TEXTRACT_RESULT_DLQ_QUEUE_URL" }

VARIABLES
    body,              \* body[m]: the parsed body of notification message m
    wq,                \* wq[m]: state of message m on textAnalysisQueue
    subPc,             \* position of the create-request-queue handler
    subBatch,          \* event.Records of its running invocation
    mi,                \* index of sqsEventRecord in subBatch
    ri,                \* index of s3EventRecord in s3Event.Records
    attemptsRemaining, \* context.attemptsRemaining of retry()
    jobId,             \* startDocumentAnalysisResponse.JobId of this attempt
    submitCalls,       \* StartDocumentAnalysis calls made for the event inside this retry()
    subFailed,         \* events of the latest invocation whose retry() rejected at the submission call
    jobs,              \* the Textract jobs started so far, by JobId
    tq,                \* tq[j]: state of the tracking message of job j on textAnalysisResultQueue
    tbody,             \* tbody[j]: MessageBody of that tracking message
    colPc,             \* position of the receive-textract-result handler
    colBatch,          \* event.Records of its running invocation (JobIds)
    ci,                \* index of record in colBatch
    jobStatus,         \* analysisResult.JobStatus of the record being processed
    page,              \* index of documentPage in document.listPages()
    written,           \* pages of the record whose PutObject has succeeded in this run
    store,             \* the objects of the JSON files bucket
    dlq,               \* the message bodies on textAnalysisResultQueueDLQ
    firstOut,          \* firstOut[j]: how often record j was processed through its last page
                       \* (0, 1, 2 for more), and its output after the first time
    documentTable,     \* the argument of extractTableData
    tableData,         \* the array extractTableData builds
    ti,                \* the row index i of its outer loop
    tblPc,             \* "idle", "rows" or "returned"
    wPc,               \* position of each concurrent collector invocation
    wPage,             \* its index in document.listPages()
    env                \* the keys of process.env that are set

\* process.env[key] is not undefined; a call given an undefined queue URL or
\* bucket name rejects.
Configured(key) == key \in env
EnvSet == env = ConfigKeys

subVars == <<body, wq, subPc, subBatch, mi, ri, attemptsRemaining, jobId, submitCalls, subFailed>>
colVars == <<colPc, colBatch, ci, jobStatus, page, written, store, dlq, firstOut>>
tblVars == <<documentTable, tableData, ti, tblPc>>
dupVars == <<wPc, wPage>>
extVars == <<tblVars, dupVars, env>>
vars == <<subVars, jobs, tq, tbody, colVars, extVars>>

\* The sequences of distinct elements of S, of length 1..n.
RECURSIVE SeqsOf(_, _)
SeqsOf(S, n) ==
    IF n = 0 \/ S = {} THEN {}
    ELSE { <<x>> : x \in S } \cup
         UNION { { <<x>> \o s : s \in SeqsOf(S \ {x}, n - 1) } : x \in S }

Range(s) == { s[k] : k \in 1..Len(s) }

\* ------------------------------------------------------------ Job Submitter

\* sqsEventRecord, its parsed body, the s3EventRecord
CurMsg == subBatch[mi]
CurBody == body[CurMsg]
CurShape == CurBody.Records[ri]
CurEvent == <<CurMsg, ri>>

\* s3EventRecord.s3.bucket.name / s3EventRecord.s3.object.key
BucketNameOf(shape) == IF shape = "nobucket" THEN Undefined ELSE PdfBucket
ObjectKeyOf(m, i, shape) == IF shape = "nokey" THEN Undefined ELSE <<"doc", m, i>>

\* (mutant) the key is read from the first record of the message
objectKeyOfFirstRecord == ObjectKeyOf(CurMsg, 1, CurBody.Records[1])

bucketName == BucketNameOf(CurShape)
objectKey == ObjectKeyOf(CurMsg, ri, CurShape)

\* (mutant) the record names a job id the service has not returned
TrackingBodyNextId(jid, key, bucket) ==
    [JobId |-> jid + 1, ObjectKey |-> key, BucketName |-> bucket]

\* MessageBody: JSON.stringify({JobId: jobId, ObjectKey: objectKey, BucketName: bucketName})
TrackingBody(jid, key, bucket) ==
    [JobId |-> jid, ObjectKey |-> key, BucketName |-> bucket]

\* if (bucketName === undefined || objectKey === undefined) throw
Malformed(shape) ==
    BucketNameOf(shape) = Undefined \/ ObjectKeyOf(0, 0, shape) = Undefined

\* (mutant) the notification is deleted before the tracking record is sent
StepAfterDeleteFirst(step) ==
    CASE step = "submit" -> "delete"
      [] step = "delete" -> "send"
      [] step = "send" -> "resolved"

\* The order of the awaited calls inside the function given to retry().
StepAfter(step) ==
    CASE step = "submit" -> "send"
      [] step = "send" -> "delete"
      [] step = "delete" -> "resolved"

\* handleError of the retry options: logs and throws a new Error.
handleErrorThrows == TRUE

\* (mutant) a failed attempt is always repeated
OnErrorAlwaysRetry(remaining) == "submit"

\* onError of retry(): handleError is awaited first, and an error it throws
\* rejects the retry promise at once; otherwise the attempt is repeated while
\* attempts remain.
OnError(remaining) ==
    IF handleErrorThrows \/ remaining = 0 THEN "rejected" ELSE "submit"

\* (mutant) the catch block rethrows
CatchRethrows == "rethrow"

\* catch (error) { console.error(...) } around retry(): the loop goes on.
CatchOutcome == "nextRecord"

\* The event source mapping of textAnalysisQueue hands the handler a batch of
\* visible messages, which stay invisible while the invocation runs.
SubReceive ==
    /\ subPc = "idle"
    /\ \E b \in SeqsOf({ m \in Msgs : wq[m] = "visible" }, batchSize) :
         /\ subBatch' = b
         /\ wq' = [m \in Msgs |-> IF m \in Range(b) THEN "inflight" ELSE wq[m]]
    /\ subPc' = "message"
    /\ mi' = 1
    /\ subFailed' = {}
    /\ UNCHANGED <<body, submitCalls, ri, attemptsRemaining, jobId, jobs, tq, tbody, colVars, extVars>>

\* for (const sqsEventRecord of sqsEventRecords): parse the body, test
\* s3Event !== undefined && Array.isArray(s3Event.Records), where reading
\* .Records of null is a TypeError; the handler returns after the last one.
SubMessage ==
    /\ subPc = "message"
    /\ IF mi > Len(subBatch)
         THEN subPc' = "returned" /\ UNCHANGED <<mi, ri>>
         ELSE IF CurBody.isNull
           THEN subPc' = "thrown" /\ UNCHANGED <<mi, ri>>
           ELSE IF CurBody.isArray
             THEN subPc' = "record" /\ ri' = 1 /\ UNCHANGED mi
             ELSE subPc' = "message" /\ mi' = mi + 1 /\ UNCHANGED ri
    /\ UNCHANGED <<body, submitCalls, wq, subBatch, attemptsRemaining, jobId, subFailed, jobs,
                   tq, tbody, colVars, extVars>>

\* for (const s3EventRecord of s3EventRecords): the validation throws out of the
\* handler; a valid record enters retry(), whose first makeAttempt() takes one
\* of the attempts.
SubRecord ==
    /\ subPc = "record"
    /\ IF ri > Len(CurBody.Records)
         THEN /\ subPc' = "message" /\ mi' = mi + 1 /\ ri' = 0
              /\ UNCHANGED attemptsRemaining
         ELSE IF Malformed(CurShape)
           THEN /\ subPc' = "thrown"
                /\ UNCHANGED <<mi, ri, attemptsRemaining>>
           ELSE /\ subPc' = "submit"
                /\ attemptsRemaining' = maxAttempts - 1
                /\ UNCHANGED <<mi, ri>>
    /\ UNCHANGED <<body, submitCalls, wq, subBatch, jobId, subFailed, jobs, tq, tbody, colVars, extVars>>

\* An awaited call of the attempt rejected (or the JobId came back undefined).
AttemptFails(step) ==
    /\ subPc' = OnError(attemptsRemaining)
    /\ IF OnError(attemptsRemaining) = "rejected"
         THEN /\ subFailed' = IF step = "submit" THEN subFailed \cup {CurEvent}
                                                 ELSE subFailed
              /\ UNCHANGED attemptsRemaining
         ELSE /\ attemptsRemaining' = attemptsRemaining - 1
              /\ UNCHANGED subFailed
    /\ jobId' = 0

\* An awaited call of the attempt returned.
AttemptStep(step) ==
    /\ subPc' = StepAfter(step)
    /\ UNCHANGED <<attemptsRemaining, subFailed>>

\* await textractClient.send(startDocumentAnalysisCommand) returns a JobId.
SubmitOk ==
    /\ subPc = "submit"
    /\ Len(jobs) < MaxJobs
    /\ jobs' = Append(jobs, [ev |-> CurEvent, status |-> "IN_PROGRESS"])
    /\ jobId' = Len(jobs) + 1
    /\ submitCalls' = submitCalls + 1
    /\ AttemptStep("submit")
    /\ UNCHANGED <<body, wq, subBatch, mi, ri, tq, tbody, colVars, extVars>>

SubmitFail ==
    /\ subPc = "submit"
    /\ submitCalls' = submitCalls + 1
    /\ AttemptFails("submit")
    /\ UNCHANGED <<body, wq, subBatch, mi, ri, jobs, tq, tbody, colVars, extVars>>

\* await sqsClient.send(sendMessageCommand) to TEXTRACT_RESULT_QUEUE_URL
SendOk ==
    /\ subPc = "send"
    /\ Configured("TEXTRACT_RESULT_QUEUE_URL")
    /\ tq' = [tq EXCEPT ![jobId] = "visible"]
    /\ tbody' = [tbody EXCEPT ![jobId] = TrackingBody(jobId, objectKey, bucketName)]
    /\ AttemptStep("send")
    /\ UNCHANGED <<body, submitCalls, wq, subBatch, mi, ri, jobId, jobs, colVars, extVars>>

SendFail ==
    /\ subPc = "send"
    /\ AttemptFails("send")
    /\ UNCHANGED <<body, submitCalls, wq, subBatch, mi, ri, jobs, tq, tbody, colVars, extVars>>

\* await sqsClient.send(deleteMessageCommand) with sqsEventRecord.receiptHandle
\* on TEXTRACT_QUEUE_URL; deleting a message again is a no-op.
DeleteOk ==
    /\ subPc = "delete"
    /\ Configured("TEXTRACT_QUEUE_URL")
    /\ wq' = [wq EXCEPT ![CurMsg] = "deleted"]
    /\ AttemptStep("delete")
    /\ UNCHANGED <<body, submitCalls, subBatch, mi, ri, jobId, jobs, tq, tbody, colVars, extVars>>

DeleteFail ==
    /\ subPc = "delete"
    /\ AttemptFails("delete")
    /\ UNCHANGED <<body, submitCalls, wq, subBatch, mi, ri, jobs, tq, tbody, colVars, extVars>>

\* retry() settled: resolved falls out of the try block, rejected goes through
\* the catch block; both go on with the next s3EventRecord.
SubSettled ==
    /\ subPc \in {"resolved", "rejected"}
    /\ IF subPc = "rejected" /\ CatchOutcome # "nextRecord"
         THEN subPc' = "thrown" /\ UNCHANGED ri
         ELSE subPc' = "record" /\ ri' = ri + 1
    /\ attemptsRemaining' = 0
    /\ jobId' = 0
    /\ submitCalls' = 0
    /\ UNCHANGED <<body, wq, subBatch, mi, subFailed, jobs, tq, tbody, colVars, extVars>>

\* What the event source mapping does with a message of the batch that the
\* handler left in flight, when the invocation ends. The handler returns no
\* batchItemFailures, so a normal return counts as success of the whole batch
\* and the mapping deletes its messages; after an error they become visible
\* again when the visibility timeout passes.
BatchOutcome(pc) == IF pc = "returned" THEN "acked" ELSE "visible"

SubFinish ==
    /\ subPc \in {"returned", "thrown"}
    /\ wq' = [m \in Msgs |->
               IF m \in Range(subBatch) /\ wq[m] = "inflight"
                 THEN BatchOutcome(subPc) ELSE wq[m]]
    /\ subPc' = "idle"
    /\ subBatch' = <<>>
    /\ mi' = 0
    /\ ri' = 0
    /\ UNCHANGED <<body, submitCalls, attemptsRemaining, jobId, subFailed, jobs, tq, tbody, colVars, extVars>>

SubIdle ==
    /\ subPc = "idle"
    /\ subBatch = <<>>
    /\ mi = 0
    /\ ri = 0
    /\ attemptsRemaining = 0
    /\ jobId = 0
    /\ submitCalls = 0
    /\ subFailed = {}

TblIdle ==
    /\ documentTable = [rowCount |-> 0, columnCount |-> 0, cells |-> {}]
    /\ tableData = <<>>
    /\ ti = 0
    /\ tblPc = "idle"

DupIdle ==
    /\ wPc = [w \in 1..NumWorkers |-> "idle"]
    /\ wPage = [w \in 1..NumWorkers |-> 0]

ColIdle ==
    /\ colPc = "idle"
    /\ colBatch = <<>>
    /\ ci = 0
    /\ jobStatus = "none"
    /\ page = 0
    /\ written = 0
    /\ store = {}
    /\ dlq = <<>>

\* The notifications of MaxMsgs uploads wait on textAnalysisQueue; nothing has
\* run yet. Messages are interchangeable, so the bodies are drawn in order.
SubInit ==
    /\ \E f \in [Msgs -> 1..Len(Bodies)] :
         /\ \A m \in Msgs : m > 1 => f[m - 1] <= f[m]
         /\ body = [m \in Msgs |-> Bodies[f[m]]]
    /\ wq = [m \in Msgs |-> "visible"]
    /\ SubIdle
    /\ jobs = <<>>
    /\ tq = [j \in 1..MaxJobs |-> "none"]
    /\ tbody = [j \in 1..MaxJobs |-> Undefined]
    /\ ColIdle
    /\ firstOut = [j \in 1..MaxJobs |-> NoOutput]
    /\ TblIdle
    /\ DupIdle
    /\ EnvSet

SubNext ==
    \/ SubReceive
    \/ SubMessage
    \/ SubRecord
    \/ SubmitOk
    \/ SubmitFail
    \/ SendOk
    \/ SendFail
    \/ DeleteOk
    \/ DeleteFail
    \/ SubSettled
    \/ SubFinish

SubmitterSpec == SubInit /\ [][SubNext]_vars

\* One notification waits on textAnalysisQueue; its body is any of Bodies or
\* the JSON text null, and any of the environment variables may be unset.
NotifInit ==
    /\ \E b \in Range(Bodies) \cup {NullBody} :
         body = [m \in Msgs |-> IF m = 1 THEN b ELSE Bodies[1]]
    /\ wq = [m \in Msgs |-> IF m = 1 THEN "visible" ELSE "deleted"]
    /\ SubIdle
    /\ jobs = <<>>
    /\ tq = [j \in 1..MaxJobs |-> "none"]
    /\ tbody = [j \in 1..MaxJobs |-> Undefined]
    /\ ColIdle
    /\ firstOut = [j \in 1..MaxJobs |-> NoOutput]
    /\ TblIdle
    /\ DupIdle
    /\ env \in SUBSET ConfigKeys

NotificationSpec == NotifInit /\ [][SubNext]_vars

\* --------------------------------------------------------- Result Collector

\* The document a job analyses, and what Textract reports of it: document
\* <<"doc", m, i>> has DocPages pages, page p holding the text DocText.
DocOf(j) == ObjectKeyOf(jobs[j].ev[1], jobs[j].ev[2], "ok")
DocPages(doc) == (doc[2] % MaxPages) + 1
DocText(doc, p) == <<"text", doc, p>>

\* record of event.Records and the fields of JSON.parse(record.body)
ColRecord == colBatch[ci]
ColJobId == tbody[ColRecord].JobId
ColObjectKey == tbody[ColRecord].ObjectKey
ColBucketName == tbody[ColRecord].BucketName

\* document.listPages() of the analysis result of the queried job
ListPages(j) == [p \in 1..DocPages(DocOf(j)) |-> DocText(DocOf(j), p)]

\* Key: `${objectKey}-documentPage.json`
OutputKey(key, pageNumber) == <<key, "-documentPage.json">>

\* Body: JSON.stringify(documentPage.text)
OutputBody(text) == <<"json", text>>

\* (mutant) the page is appended to the object already under Key
PutObjectAppend(objects, key, pageNumber, text) ==
    { o \in objects : o.Key # OutputKey(key, pageNumber) }
        \cup { [Key |-> OutputKey(key, pageNumber),
                Body |-> (IF \E o \in objects : o.Key = OutputKey(key, pageNumber)
                            THEN (CHOOSE o \in objects : o.Key = OutputKey(key, pageNumber)).Body
                            ELSE <<>>) \o OutputBody(text)] }

\* s3Client.send(new PutObjectCommand({Bucket, Key, Body})): the object under
\* Key is replaced.
PutObject(objects, key, pageNumber, text) ==
    { o \in objects : o.Key # OutputKey(key, pageNumber) }
        \cup { [Key |-> OutputKey(key, pageNumber), Body |-> OutputBody(text)] }

\* The objects of the bucket under the keys record j is written to.
OutputOf(objects, j) ==
    { o \in objects :
        \E p \in 1..DocPages(DocOf(j)) : o.Key = OutputKey(tbody[j].ObjectKey, p) }

\* (mutant) the record is quarantined under the name of the output bucket
QuarantineBodyOutputBucket(jid, key, bucket) ==
    [JobId |-> jid, ObjectKey |-> key, BucketName |-> "jsonFilesBucket"]

\* MessageBody: JSON.stringify({JobId: jobId, ObjectKey: objectKey, BucketName: bucketName})
QuarantineBody(jid, key, bucket) ==
    [JobId |-> jid, ObjectKey |-> key, BucketName |-> bucket]

\* (mutant) every status but FAILED is taken as success
BranchNotFailedPut(status) ==
    CASE status = "FAILED" -> "quarantine"
      [] OTHER -> "put"

\* (mutant) every status but SUCCEEDED is taken as failure
BranchElseQuarantine(status) ==
    CASE status = "SUCCEEDED" -> "put"
      [] OTHER -> "quarantine"

\* (mutant) the tracking message is deleted before the pages are written
BranchDeleteFirst(status) ==
    CASE status = "SUCCEEDED" -> "delete"
      [] status = "FAILED" -> "quarantine"
      [] OTHER -> "thrown"

\* (mutant) a FAILED record is deleted from the results queue
BranchFailedDelete(status) ==
    CASE status = "SUCCEEDED" -> "put"
      [] status = "FAILED" -> "delete"
      [] OTHER -> "thrown"

\* The branch taken on analysisResult.JobStatus.
Branch(status) ==
    CASE status = "SUCCEEDED" -> "put"
      [] status = "FAILED" -> "quarantine"
      [] OTHER -> "thrown"

\* The end of one iteration of for (const record of event.Records).
ColAdvance ==
    /\ ci' = ci + 1
    /\ colPc' = IF ci + 1 > Len(colBatch) THEN "returned" ELSE "query"
    /\ jobStatus' = "none"
    /\ page' = 0
    /\ written' = 0

\* (mutant) the rejection is caught and the handler returns
ColThrowSwallowed ==
    /\ colPc' = "returned"
    /\ page' = 0
    /\ UNCHANGED <<ci, written>>

\* An awaited call rejected outside any try block: the handler throws.
ColThrow ==
    /\ colPc' = "thrown"
    /\ page' = 0
    /\ UNCHANGED <<ci, written>>

\* (mutant) the catch block around the delete rethrows
DeleteCatchRethrows == "rethrow"

\* catch (e) { console.log(`Fail to delete message in SQS: ${e}`) }
DeleteCatchOutcome == "nextRecord"

\* (mutant) the status of the first record of the batch is taken for every record
JobStatusOfFirstRecord(j) == jobs[tbody[colBatch[1]].JobId].status

\* analysisResult.JobStatus of GetDocumentAnalysisCommand({ JobId: jobId })
JobStatusOf(j) == jobs[j].status

\* The event source mapping of textAnalysisResultQueue hands the handler a batch
\* of visible tracking messages.
ColReceive ==
    /\ colPc = "idle"
    /\ \E b \in SeqsOf({ j \in DOMAIN tq : tq[j] = "visible" }, batchSize) :
         /\ colBatch' = b
         /\ tq' = [j \in DOMAIN tq |-> IF j \in Range(b) THEN "inflight" ELSE tq[j]]
    /\ colPc' = "query"
    /\ ci' = 1
    /\ UNCHANGED <<subVars, extVars, jobs, tbody, jobStatus, page, written, store, dlq, firstOut>>

\* await textractClient.send(getDocumentAnalysisCommand), then the branch on
\* analysisResult.JobStatus; any other status throws.
QueryOk ==
    /\ colPc = "query"
    /\ jobStatus' = JobStatusOf(ColJobId)
    /\ colPc' = Branch(jobStatus')
    /\ page' = IF Branch(jobStatus') = "put" THEN 1 ELSE 0
    /\ UNCHANGED <<subVars, extVars, jobs, tq, tbody, colBatch, ci, written, store, dlq, firstOut>>

QueryFail ==
    /\ colPc = "query"
    /\ ColThrow
    /\ UNCHANGED <<subVars, extVars, jobs, tq, tbody, colBatch, jobStatus, store, dlq, firstOut>>

\* await s3Client.send(putObjectCommand) for documentPage; after the last page
\* the handler goes on to the delete.
PutOk ==
    /\ colPc = "put"
    /\ Configured("S3_JSON_FILES_BUCKET_NAME")
    /\ store' = PutObject(store, ColObjectKey, page, ListPages(ColJobId)[page])
    /\ written' = written + 1
    /\ IF page < Len(ListPages(ColJobId))
         THEN /\ page' = page + 1
              /\ UNCHANGED <<colPc, firstOut>>
         ELSE /\ page' = 0
              /\ colPc' = "delete"
              /\ firstOut' = [firstOut EXCEPT ![ColRecord] =
                               IF @.runs = 0
                                 THEN [runs |-> 1, objects |-> OutputOf(store', ColRecord)]
                                 ELSE [@ EXCEPT !.runs = 2]]
    /\ UNCHANGED <<subVars, extVars, jobs, tq, tbody, colBatch, ci, jobStatus, dlq>>

PutFail ==
    /\ colPc = "put"
    /\ ColThrow
    /\ UNCHANGED <<subVars, extVars, jobs, tq, tbody, colBatch, jobStatus, store, dlq, firstOut>>

\* try { await sqsClient.send(deleteMessageCommand) } catch (e) { log }
ColDeleteOk ==
    /\ colPc = "delete"
    /\ Configured("TEXTRACT_RESULT_QUEUE_URL")
    /\ tq' = [tq EXCEPT ![ColRecord] = "deleted"]
    /\ ColAdvance
    /\ UNCHANGED <<subVars, extVars, jobs, tbody, colBatch, store, dlq, firstOut>>

ColDeleteFail ==
    /\ colPc = "delete"
    /\ IF DeleteCatchOutcome = "nextRecord"
         THEN ColAdvance
         ELSE ColThrow /\ UNCHANGED jobStatus
    /\ UNCHANGED <<subVars, extVars, jobs, tq, tbody, colBatch, store, dlq, firstOut>>

\* await sqsClient.send(sendMessageCommand) to TEXT_ANALYSIS_RESULT_DLQ_QUEUE_URL;
\* the tracking message is not deleted.
QuarantineOk ==
    /\ colPc = "quarantine"
    /\ Configured("TEXTRACT_RESULT_DLQ_QUEUE_URL")
    /\ Len(dlq) < MaxQuarantine
    /\ dlq' = Append(dlq, QuarantineBody(ColJobId, ColObjectKey, ColBucketName))
    /\ ColAdvance
    /\ UNCHANGED <<subVars, extVars, jobs, tq, tbody, colBatch, store, firstOut>>

QuarantineFail ==
    /\ colPc = "quarantine"
    /\ ColThrow
    /\ UNCHANGED <<subVars, extVars, jobs, tq, tbody, colBatch, jobStatus, store, dlq, firstOut>>

\* The invocation ended: the event source mapping of textAnalysisResultQueue
\* treats the batch as it does for the submitter.
ColFinish ==
    /\ colPc \in {"returned", "thrown"}
    /\ tq' = [j \in DOMAIN tq |->
               IF j \in Range(colBatch) /\ tq[j] = "inflight"
                 THEN BatchOutcome(colPc) ELSE tq[j]]
    /\ colPc' = "idle"
    /\ colBatch' = <<>>
    /\ ci' = 0
    /\ jobStatus' = "none"
    /\ written' = 0
    /\ UNCHANGED <<subVars, extVars, jobs, tbody, page, store, dlq, firstOut>>

\* Textract finishes a job: JobStatus goes from IN_PROGRESS to SUCCEEDED or FAILED.
JobCompletes ==
    /\ \E j \in 1..Len(jobs), s \in {"SUCCEEDED", "FAILED"} :
         /\ jobs[j].status = "IN_PROGRESS"
         /\ jobs' = [jobs EXCEPT ![j].status = s]
    /\ UNCHANGED <<subVars, tq, tbody, colVars, extVars>>

\* The submitter has published MaxTracking tracking records, each for one of
\* the uploaded documents (two records may name the same document), and has
\* deleted the notifications; the jobs are still running.
ColInit ==
    /\ body = [m \in Msgs |-> Bodies[1]]
    /\ wq = [m \in Msgs |-> "deleted"]
    /\ SubIdle
    /\ \E d \in [1..MaxTracking -> Msgs] :
         /\ \A j \in 1..MaxTracking : d[j] <= j
         /\ jobs = [j \in 1..MaxTracking |-> [ev |-> <<d[j], 1>>, status |-> "IN_PROGRESS"]]
         /\ tbody = [j \in 1..MaxTracking |->
                      [JobId |-> j, ObjectKey |-> ObjectKeyOf(d[j], 1, "ok"),
                       BucketName |-> PdfBucket]]
    /\ tq = [j \in 1..MaxTracking |-> "visible"]
    /\ ColIdle
    /\ firstOut = [j \in 1..MaxTracking |-> NoOutput]
    /\ TblIdle
    /\ DupIdle
    /\ EnvSet

ColNext ==
    \/ ColReceive
    \/ QueryOk
    \/ QueryFail
    \/ PutOk
    \/ PutFail
    \/ ColDeleteOk
    \/ ColDeleteFail
    \/ QuarantineOk
    \/ QuarantineFail
    \/ ColFinish
    \/ JobCompletes

CollectorSpec == ColInit /\ [][ColNext]_vars

\* ------------------------------------------------------------ both handlers

\* One notification waits on textAnalysisQueue and the results queue is empty;
\* the two functions run side by side, each fed by its own queue.
PipeInit ==
    /\ \E b \in Range(Bodies) :
         body = [m \in Msgs |-> IF m = 1 THEN b ELSE Bodies[1]]
    /\ wq = [m \in Msgs |-> IF m = 1 THEN "visible" ELSE "deleted"]
    /\ SubIdle
    /\ jobs = <<>>
    /\ tq = [j \in 1..MaxJobs |-> "none"]
    /\ tbody = [j \in 1..MaxJobs |-> Undefined]
    /\ ColIdle
    /\ firstOut = [j \in 1..MaxJobs |-> NoOutput]
    /\ TblIdle
    /\ DupIdle
    /\ EnvSet

PipeNext ==
    \/ SubNext
    \/ ColNext

PipelineSpec == PipeInit /\ [][PipeNext]_vars

\* --------------------------------------------------------- extractTableData

\* The text of the cell a table has at row i, column j (0-based).
Letters ==
    << "A", "B", "C", "D", "E", "F", "G", "H", "I", "J", "K", "L", "M",
       "N", "O", "P", "Q", "R", "S", "T", "U", "V", "W", "X", "Y", "Z" >>
TextAt(i, j) == Letters[((i * (MaxCols + 1) + j) % Len(Letters)) + 1]

NoCell == [present |-> FALSE, text |-> ""]

\* (mutant) the cell is looked up with row and column exchanged
GetCellTransposed(table, i, j) ==
    IF <<j, i>> \in table.cells THEN [present |-> TRUE, text |-> TextAt(j, i)]
    ELSE NoCell

\* documentTable.getCell(i, j)
GetCell(table, i, j) ==
    IF <<i, j>> \in table.cells THEN [present |-> TRUE, text |-> TextAt(i, j)]
    ELSE NoCell

\* `Column${j + 1}`
ColumnKey(j) == <<"Column", j + 1>>

\* rowData[key] = value
Assign(rowData, key, value) ==
    [k \in DOMAIN rowData \cup {key} |-> IF k = key THEN value ELSE rowData[k]]

\* (mutant) a coordinate without a cell gets no key
SetColumnSkipMissing(rowData, table, i, j) ==
    IF GetCell(table, i, j).present
      THEN Assign(rowData, ColumnKey(j), GetCell(table, i, j).text)
      ELSE rowData

\* if (cell) rowData[`Column${j + 1}`] = cell.text; else rowData[...] = ''
SetColumn(rowData, table, i, j) ==
    IF GetCell(table, i, j).present
      THEN Assign(rowData, ColumnKey(j), GetCell(table, i, j).text)
      ELSE Assign(rowData, ColumnKey(j), "")

\* for (let j = 0; j < cols; j++), from column j on
RECURSIVE ColumnLoop(_, _, _, _)
ColumnLoop(rowData, table, i, j) ==
    IF j < table.columnCount
      THEN ColumnLoop(SetColumn(rowData, table, i, j), table, i, j + 1)
      ELSE rowData

\* const rowData = {}
EmptyObject == [k \in {} |-> ""]

\* One iteration of for (let i = 0; i < rows; i++): the row is built and pushed.
TableRow ==
    /\ tblPc = "rows"
    /\ ti < documentTable.rowCount
    /\ tableData' = Append(tableData, ColumnLoop(EmptyObject, documentTable, ti, 0))
    /\ ti' = ti + 1
    /\ UNCHANGED <<subVars, jobs, tq, tbody, colVars, documentTable, tblPc, dupVars, env>>

\* return tableData
TableReturn ==
    /\ tblPc = "rows"
    /\ ~(ti < documentTable.rowCount)
    /\ tblPc' = "returned"
    /\ UNCHANGED <<subVars, jobs, tq, tbody, colVars, documentTable, tableData, ti, dupVars, env>>

\* extractTableData is entered with a table of up to MaxRows rows and MaxCols
\* columns, any of whose coordinates may be without a cell.
TblInit ==
    /\ body = [m \in Msgs |-> Bodies[1]]
    /\ wq = [m \in Msgs |-> "deleted"]
    /\ SubIdle
    /\ jobs = <<>>
    /\ tq = [j \in 1..MaxJobs |-> "none"]
    /\ tbody = [j \in 1..MaxJobs |-> Undefined]
    /\ ColIdle
    /\ firstOut = [j \in 1..MaxJobs |-> NoOutput]
    /\ DupIdle
    /\ EnvSet
    /\ \E r \in 0..MaxRows, c \in 0..MaxCols :
         \E cs \in SUBSET ((0..(r - 1)) \X (0..(c - 1))) :
             documentTable = [rowCount |-> r, columnCount |-> c, cells |-> cs]
    /\ tableData = <<>>
    /\ ti = 0
    /\ tblPc = "rows"

TblNext ==
    \/ TableRow
    \/ TableReturn

TableSpec == TblInit /\ [][TblNext]_vars

\* ----------------------------------- Result Collector, duplicate deliveries

\* The SqsEventSource runs the handler in up to NumWorkers concurrent
\* invocations, and a standard queue may hand the tracking record of job 1 to
\* more than one of them. Each invocation has a batch of that one record.
Workers == 1..NumWorkers
DupRecord == 1
DupUnchanged ==
    UNCHANGED <<subVars, jobs, tbody, colPc, colBatch, ci, jobStatus, page, written,
                dlq, firstOut, tblVars, env>>

\* The record is delivered to invocation w while it is on the queue.
DupReceive(w) ==
    /\ wPc[w] = "idle"
    /\ tq[DupRecord] \in {"visible", "inflight"}
    /\ tq' = [tq EXCEPT ![DupRecord] = "inflight"]
    /\ wPc' = [wPc EXCEPT ![w] = "query"]
    /\ UNCHANGED <<wPage, store>>
    /\ DupUnchanged

\* await textractClient.send(getDocumentAnalysisCommand) and the branch on JobStatus
DupQueryOk(w) ==
    /\ wPc[w] = "query"
    /\ wPc' = [wPc EXCEPT ![w] = Branch(jobs[tbody[DupRecord].JobId].status)]
    /\ wPage' = [wPage EXCEPT ![w] = 1]
    /\ UNCHANGED <<tq, store>>
    /\ DupUnchanged

DupQueryFail(w) ==
    /\ wPc[w] = "query"
    /\ wPc' = [wPc EXCEPT ![w] = "thrown"]
    /\ UNCHANGED <<tq, wPage, store>>
    /\ DupUnchanged

\* await s3Client.send(putObjectCommand) for documentPage number wPage[w]
DupPutOk(w) ==
    /\ wPc[w] = "put"
    /\ Configured("S3_JSON_FILES_BUCKET_NAME")
    /\ store' = PutObject(store, tbody[DupRecord].ObjectKey, wPage[w],
                          ListPages(tbody[DupRecord].JobId)[wPage[w]])
    /\ IF wPage[w] < Len(ListPages(tbody[DupRecord].JobId))
         THEN wPage' = [wPage EXCEPT ![w] = @ + 1] /\ UNCHANGED wPc
         ELSE wPage' = [wPage EXCEPT ![w] = 0] /\ wPc' = [wPc EXCEPT ![w] = "delete"]
    /\ UNCHANGED tq
    /\ DupUnchanged

DupPutFail(w) ==
    /\ wPc[w] = "put"
    /\ wPc' = [wPc EXCEPT ![w] = "thrown"]
    /\ wPage' = [wPage EXCEPT ![w] = 0]
    /\ UNCHANGED <<tq, store>>
    /\ DupUnchanged

\* await sqsClient.send(deleteMessageCommand), inside its own try/catch
DupDeleteOk(w) ==
    /\ wPc[w] = "delete"
    /\ Configured("TEXTRACT_RESULT_QUEUE_URL")
    /\ tq' = [tq EXCEPT ![DupRecord] = "deleted"]
    /\ wPc' = [wPc EXCEPT ![w] = "returned"]
    /\ UNCHANGED <<wPage, store>>
    /\ DupUnchanged

DupDeleteFail(w) ==
    /\ wPc[w] = "delete"
    /\ wPc' = [wPc EXCEPT ![w] = "returned"]
    /\ UNCHANGED <<tq, wPage, store>>
    /\ DupUnchanged

\* Invocation w ends; a record not deleted by now is deleted by the event
\* source mapping after a normal return and visible again after a throw.
DupFinish(w) ==
    /\ wPc[w] \in {"returned", "thrown"}
    /\ tq' = [tq EXCEPT ![DupRecord] =
                IF @ \in {"deleted", "acked"} THEN @ ELSE BatchOutcome(wPc[w])]
    /\ wPc' = [wPc EXCEPT ![w] = "idle"]
    /\ UNCHANGED <<wPage, store>>
    /\ DupUnchanged

\* The page loop of one invocation that nothing interferes with, from page p on.
RECURSIVE WritePages(_, _, _)
WritePages(objects, j, p) ==
    IF p > Len(ListPages(tbody[j].JobId)) THEN objects
    ELSE WritePages(PutObject(objects, tbody[j].ObjectKey, p,
                              ListPages(tbody[j].JobId)[p]), j, p + 1)

\* The tracking record of a SUCCEEDED job for one uploaded document is on the
\* results queue; the output bucket is empty.
DupInit ==
    /\ body = [m \in Msgs |-> Bodies[1]]
    /\ wq = [m \in Msgs |-> "deleted"]
    /\ SubIdle
    /\ \E m \in Msgs :
         /\ jobs = <<[ev |-> <<m, 1>>, status |-> "SUCCEEDED"]>>
         /\ tbody = [j \in {DupRecord} |->
                      TrackingBody(j, ObjectKeyOf(m, 1, "ok"), PdfBucket)]
    /\ tq = [j \in {DupRecord} |-> "visible"]
    /\ ColIdle
    /\ firstOut = [j \in {DupRecord} |-> NoOutput]
    /\ TblIdle
    /\ DupIdle
    /\ EnvSet

DupNext ==
    \/ \E w \in Workers : DupReceive(w)
    \/ \E w \in Workers : DupQueryOk(w)
    \/ \E w \in Workers : DupQueryFail(w)
    \/ \E w \in Workers : DupPutOk(w)
    \/ \E w \in Workers : DupPutFail(w)
    \/ \E w \in Workers : DupDeleteOk(w)
    \/ \E w \in Workers : DupDeleteFail(w)
    \/ \E w \in Workers : DupFinish(w)

DuplicateSpec == DupInit /\ [][DupNext]_vars

\* ------------------------------------------------------------------ claims

\* The jobs started for event e, and those of them with a tracking record on
\* textAnalysisResultQueue.
JobsOf(e) == { j \in 1..Len(jobs) : jobs[j].ev = e }
Published(e) == { j \in JobsOf(e) : tq[j] # "none" }

\* The valid events of the running batch that the loops have not reached.
NotReached ==
    { e \in UNION { { <<a, b>> : b \in 1..Len(body[subBatch[a]].Records) } :
                    a \in 1..Len(subBatch) } :
        /\ ~Malformed(body[subBatch[e[1]]].Records[e[2]])
        /\ e[1] > mi \/ (e[1] = mi /\ e[2] > ri) }

\* C1: the submitter issues the delete of a notification only after the send
\* of the tracking record of the event it is processing has completed, and a
\* notification the submitter has deleted has a tracking record on the results
\* queue.
C1_PublishBeforeAcknowledge ==
    /\ subPc = "delete" => jobId \in Published(CurEvent)
    /\ \A m \in Msgs : wq[m] = "deleted" =>
         \E i \in 1..Len(body[m].Records) : Published(<<m, i>>) # {}

C1_Witness == \E m \in Msgs : wq[m] = "deleted" /\ Len(body[m].Records) = 1

\* C2: when the processing of an event completes (retry() resolves), exactly
\* one job has been submitted and exactly one tracking record published for
\* that event, whatever happened to it before.
C2_ExactlyOneTrackingRecord ==
    subPc = "resolved" =>
        Cardinality(JobsOf(CurEvent)) = 1 /\ Cardinality(Published(CurEvent)) = 1

\* C3: an event for which a submission call returned a job id is never
\* submitted again: no event has two jobs.
C3_NoResubmission ==
    \A m \in Msgs : \A i \in 1..Len(body[m].Records) :
        Cardinality(JobsOf(<<m, i>>)) <= 1

\* C4: the retry is carried through to the third attempt: the submitter gives
\* up on an event whose submission call failed only when no attempt remains.
C4_RetryCarriedThrough ==
    (subPc = "rejected" /\ CurEvent \in subFailed) => attemptsRemaining = 0

\* C5: a malformed event does not crash the batch: when the invocation has
\* ended, the loops have reached every valid event of the batch.
C5_BatchIsolation ==
    subPc \in {"returned", "thrown"} => NotReached = {}

\* C6: a failed submission, publish or delete for one event does not abort the
\* batch: the invocation is aborted only at a malformed record, and has
\* returned only when every valid event of the batch was reached.
C6_FailureIsolation ==
    /\ subPc = "thrown" => Malformed(CurShape)
    /\ subPc = "returned" => NotReached = {}

C6_Witness ==
    /\ subPc = "send"
    /\ \E e \in subFailed : e[1] # CurMsg

\* C7: a notification of one event whose submission failed for good is not
\* deleted and nothing is quarantined: the message is in flight or visible
\* again on the work queue.
C7_LeftForRedelivery ==
    /\ dlq = <<>>
    /\ \A e \in subFailed :
         Len(body[e[1]].Records) = 1 => wq[e[1]] \in {"inflight", "visible"}

\* C8: once the collector has gone through the pages of a SUCCEEDED record, the
\* bucket holds one object per page of it.
C8_OneObjectPerPage ==
    colPc = "delete" =>
        Cardinality(OutputOf(store, ColRecord)) = Len(ListPages(ColJobId))

\* C9: when the collector has gone through the pages of a record again, the
\* objects of that record in the bucket are those its first processing left:
\* same keys, same bodies.
C9_Idempotent ==
    colPc = "delete" =>
        OutputOf(store, ColRecord) = firstOut[ColRecord].objects

C9_Witness ==
    /\ colPc = "delete"
    /\ firstOut[ColRecord].runs = 2
    /\ Len(ListPages(ColJobId)) > 1

\* C10: no tracking record is on the quarantine queue twice.
C10_QuarantinedOnce ==
    \A j \in 1..Len(jobs) :
        Cardinality({ k \in 1..Len(dlq) : dlq[k].JobId = j }) <= 1

\* C11: every record on the quarantine queue has the JobId, ObjectKey and
\* BucketName of the tracking record of its job, and no other field.
C11_QuarantineRecordUnchanged ==
    \A k \in 1..Len(dlq) :
        /\ DOMAIN dlq[k] = {"JobId", "ObjectKey", "BucketName"}
        /\ dlq[k].JobId \in DOMAIN tbody
        /\ dlq[k].JobId = tbody[dlq[k].JobId].JobId
        /\ dlq[k].ObjectKey = tbody[dlq[k].JobId].ObjectKey
        /\ dlq[k].BucketName = tbody[dlq[k].JobId].BucketName

C11_Witness == Len(dlq) > 0

\* C12: a failure local to one tracking record does not abort its siblings:
\* when the invocation has ended, the loop has reached every record of the
\* batch.
C12_CollectorIsolation ==
    colPc \in {"returned", "thrown"} => ci >= Len(colBatch)

\* C13: for a record whose queried status is neither SUCCEEDED nor FAILED the
\* collector throws without writing an object, quarantining or deleting, and
\* the end of the invocation leaves the record visible on the results queue.
C13_NotCompleteIsRetried ==
    /\ [][(colPc = "query" /\ jobStatus' \notin {"SUCCEEDED", "FAILED", "none"}) =>
            (colPc' = "thrown" /\ store' = store /\ dlq' = dlq /\ tq' = tq)]_vars
    /\ [][(colPc = "thrown" /\ jobStatus \notin {"SUCCEEDED", "FAILED", "none"}
             /\ colPc' = "idle") => tq'[ColRecord] = "visible"]_vars

C13_Witness ==
    /\ colPc = "thrown"
    /\ jobStatus = "IN_PROGRESS"
    /\ tq[ColRecord] = "inflight"

\* C14: the collector is at the delete of a tracking message only when every
\* page of the record has been written in this run, and a run that has thrown
\* (a failed write among the causes) has not deleted the record it failed on.
C14_AcknowledgeAfterPersist ==
    /\ colPc = "delete" => written = Len(ListPages(ColJobId))
    /\ colPc = "thrown" => tq[ColRecord] # "deleted"
    /\ \A j \in DOMAIN tq : tq[j] = "deleted" => firstOut[j].runs > 0

C14_Witness ==
    \E j \in DOMAIN tq : tq[j] = "deleted" /\ Len(ListPages(j)) > 1

\* C20: every record on the quarantine queue is of a job whose status is
\* FAILED.
C20_OnlyFailedQuarantined ==
    \A k \in 1..Len(dlq) : jobs[dlq[k].JobId].status = "FAILED"

C20_Witness ==
    /\ Len(dlq) > 0
    /\ \E j \in DOMAIN tq : jobs[j].status = "SUCCEEDED" /\ firstOut[j].runs > 0

\* C15: no job is silently lost: a valid event whose notification has left
\* the work queue for good (deleted by the handler or by the event source
\* mapping) has a tracking record on the results queue; without one, no later
\* step can persist or quarantine its result.
C15_NoJobLost ==
    \A m \in Msgs : \A i \in 1..Len(body[m].Records) :
        (wq[m] \in {"deleted", "acked"} /\ ~Malformed(body[m].Records[i]))
            => Published(<<m, i>>) # {}

\* C19: the tracking record published for a job carries the id of that job and
\* the key and bucket of the event the job was submitted for.
C19_TrackingRecordOfSameEvent ==
    \A j \in 1..Len(jobs) :
        tq[j] # "none" =>
            /\ tbody[j].JobId = j
            /\ tbody[j].ObjectKey =
                   ObjectKeyOf(jobs[j].ev[1], jobs[j].ev[2],
                               body[jobs[j].ev[1]].Records[jobs[j].ev[2]])
            /\ tbody[j].BucketName =
                   BucketNameOf(body[jobs[j].ev[1]].Records[jobs[j].ev[2]])

C19_Witness ==
    \E j \in 1..Len(jobs) : tq[j] # "none" /\ jobs[j].ev[2] = 2

\* C17: extractTableData returns one row object per row of the table, and
\* every row object has exactly the keys Column1..ColumnC, also where the
\* table has no cell.
C17_TableShape ==
    tblPc = "returned" =>
        /\ Len(tableData) = documentTable.rowCount
        /\ \A i \in 1..Len(tableData) :
             DOMAIN tableData[i] =
                 { <<"Column", n>> : n \in 1..documentTable.columnCount }

C17_Witness ==
    /\ tblPc = "returned"
    /\ documentTable.rowCount = 2
    /\ documentTable.columnCount = 2
    /\ documentTable.cells = {<<1, 0>>}

\* C18: the value under Column(j+1) of row i is the text of the cell at
\* (i, j), and the empty string where the table has no cell there.
C18_TableValues ==
    tblPc = "returned" =>
        \A i \in 0..(documentTable.rowCount - 1) :
            \A j \in 0..(documentTable.columnCount - 1) :
                tableData[i + 1][<<"Column", j + 1>>] =
                    IF <<i, j>> \in documentTable.cells THEN TextAt(i, j) ELSE ""

\* the table of two rows and three columns that lacks the cell (0, 1)
C18_Witness ==
    /\ tblPc = "returned"
    /\ documentTable.rowCount = 2
    /\ documentTable.columnCount = 3
    /\ documentTable.cells = ((0..1) \X (0..2)) \ {<<0, 1>>}
    /\ tableData[1][<<"Column", 2>>] = ""
    /\ tableData[2][<<"Column", 2>>] = TextAt(1, 1)

\* C16: when every invocation that a duplicate delivery of a tracking record
\* started has ended and the record has left the results queue, the output
\* bucket holds what one undisturbed run of the page loop writes.
C16_ExactlyOnceEffective ==
    (/\ tq[DupRecord] \in {"deleted", "acked"}
     /\ \A w \in Workers : wPc[w] = "idle")
        => store = WritePages({}, DupRecord, 1)

\* C21: when an environment variable of the submitter is unset, the handler
\* fails before any external call: no submission call is made and no job is
\* started.
C21_MissingConfigIsFatal ==
    (~Configured("TEXTRACT_RESULT_QUEUE_URL") \/ ~Configured("TEXTRACT_QUEUE_URL"))
        => (submitCalls = 0 /\ Len(jobs) = 0)

\* C30: the handler does not throw at a message whose parsed body has no
\* Records array: where it has thrown, the message it was at has one.
C30_NoRecordsDoesNotRaise ==
    subPc = "thrown" => CurBody.isArray

\* C22: when a collector invocation fails part-way through its batch, the
\* records before the failing one, which were processed successfully, do not
\* become visible again.
C22_SucceededNotRedelivered ==
    [][(colPc = "thrown" /\ colPc' = "idle") =>
          \A k \in 1..(ci - 1) : tq'[colBatch[k]] # "visible"]_vars

\* C23: the collector deletes no tracking message of a FAILED job: a message
\* it has deleted is of a SUCCEEDED job, and no quarantined record is deleted.
C23_FailedNotDeleted ==
    /\ \A j \in DOMAIN tq : tq[j] = "deleted" => jobs[j].status = "SUCCEEDED"
    /\ \A k \in 1..Len(dlq) : tq[dlq[k].JobId] # "deleted"

C23_Witness ==
    /\ Len(dlq) > 0
    /\ colPc \in {"query", "returned"}
    /\ \E k \in 1..Len(colBatch) :
         k < ci /\ colBatch[k] = dlq[1].JobId /\ tq[colBatch[k]] = "inflight"

\* C24: a step of the collector at the delete that leaves the results queue
\* as it was (the delete failed) goes on to the next record or the end of the
\* batch, without throwing, and keeps the bucket and the quarantine queue.
C24_DeleteFailureLoggedOnly ==
    [][(colPc = "delete" /\ tq' = tq /\ jobs' = jobs) =>
          /\ colPc' = (IF ci + 1 > Len(colBatch) THEN "returned" ELSE "query")
          /\ ci' = ci + 1
          /\ store' = store
          /\ dlq' = dlq]_vars

C24_Witness ==
    /\ colPc \in {"query", "returned"}
    /\ \E k \in 1..Len(colBatch) :
         /\ k < ci
         /\ jobs[colBatch[k]].status = "SUCCEEDED"
         /\ tq[colBatch[k]] = "inflight"
         /\ OutputOf(store, colBatch[k]) # {}

\* C25: inside one retry() the submitter makes at most maxAttempts
\* StartDocumentAnalysis calls for the event.
C25_AtMostThreeSubmissions ==
    submitCalls <= maxAttempts

C25_Witness ==
    /\ subPc = "rejected"
    /\ submitCalls = 1
    /\ CurEvent \in subFailed

\* C26: the collector writes, deletes or quarantines for a record only after
\* the status query of the record's JobId, and the branch it is in is the one
\* of the status the job of that record has.
C26_StatusAlwaysQueried ==
    /\ colPc = "query" => (jobStatus = "none" /\ written = 0)
    /\ colPc \in {"put", "delete"} =>
         (jobStatus = "SUCCEEDED" /\ jobs[ColJobId].status = "SUCCEEDED")
    /\ colPc = "quarantine" =>
         (jobStatus = "FAILED" /\ jobs[ColJobId].status = "FAILED")

C26_Witness ==
    /\ colPc = "quarantine"
    /\ ci = 2
    /\ jobs[colBatch[1]].status = "SUCCEEDED"

\* C28: a notification is deleted only when every object record it wraps has
\* a tracking record on the results queue.
C28_DeleteAfterAllTracked ==
    \A m \in Msgs :
        wq[m] = "deleted" =>
            \A i \in 1..Len(body[m].Records) : Published(<<m, i>>) # {}

\* C29: a rejected status query, write or quarantine send ends the invocation
\* with an error (the handler returns normally only past the last record),
\* the collector has not deleted the record it failed on, and the failed
\* invocation leaves it to be redelivered.
C29_FailurePropagates ==
    /\ colPc = "thrown" =>
         (tq[ColRecord] = "inflight" /\ BatchOutcome(colPc) = "visible")
    /\ colPc = "returned" => ci = Len(colBatch) + 1

C29_Witness ==
    /\ colPc = "thrown"
    /\ jobStatus = "SUCCEEDED"
    /\ written = 1

\* C27: a tracking record on the results queue names a job the Analysis
\* Service has already returned, and so does every record the collector holds
\* and every JobId it has queried.
C27_QueryAfterSubmission ==
    /\ \A j \in DOMAIN tq :
         tq[j] # "none" => (j <= Len(jobs) /\ tbody[j].JobId \in 1..Len(jobs))
    /\ \A k \in 1..Len(colBatch) : tbody[colBatch[k]].JobId \in 1..Len(jobs)
    /\ jobStatus # "none" => ColJobId \in 1..Len(jobs)

C27_Witness ==
    /\ jobStatus = "SUCCEEDED"
    /\ subPc = "send"
    /\ Len(jobs) = 2

====
